---- MODULE Spec2Model ----
(***************************************************************************)
(* The regression notebook 7_2_Basic_Regression_Analysis_Example_2 as a    *)
(* state machine.  The state is the kernel's global namespace (env), the   *)
(* worksheet that pd.read_excel returns (raw), the results the statistics  *)
(* libraries return for the data at hand (lib), the model file on disk and *)
(* its open handles, what the cells printed (out), and the position of the *)
(* top-to-bottom run (pc).  One action per notebook cell.                  *)
(*                                                                         *)
(* Numbers: a p-value is an integer number of thousandths (50 is 0.05);    *)
(* worksheet cells, coefficients and predictions are integers.             *)
(***************************************************************************)
EXTENDS Integers, Sequences, FiniteSets, TLC

VARIABLES raw, env, lib, file, handles, out, pc

vars == <<raw, env, lib, file, handles, out, pc>>

----------------------------------------------------------------------------
(* Bounds of the model *)

\* most rows a worksheet holds
MaxRows == 9
\* most '..' cells a worksheet holds
MaxDots == 1
\* most mapped columns a worksheet lacks
MaxAbsent == 1

----------------------------------------------------------------------------
(* Program constants of the data loading cell *)

\* econ_df.loc['1969':'2016']
YearLo == 1969
YearHi == 2016

\* the keys of column_names, the worksheet's column headers
SourceCols ==
    { "Unemployment, total (% of total labor force) (national estimate)",
      "GDP growth (annual %)",
      "Gross capital formation (% of GDP)",
      "Population growth (annual %)",
      "Birth rate, crude (per 1,000 people)",
      "Broad money growth (annual %)",
      "Final consumption expenditure (% of GDP)",
      "Final consumption expenditure (annual % growth)",
      "General government final consumption expenditure (annual % growth)",
      "Gross capital formation (annual % growth)",
      "Households and NPISHs Final consumption expenditure (annual % growth)" }

\* the dictionary column_names
column_names ==
    [ c \in SourceCols |->
        CASE c = "Unemployment, total (% of total labor force) (national estimate)"
                 -> "unemployment"
          [] c = "GDP growth (annual %)" -> "gdp_growth"
          [] c = "Gross capital formation (% of GDP)" -> "gross_capital_formation"
          [] c = "Population growth (annual %)" -> "pop_growth"
          [] c = "Birth rate, crude (per 1,000 people)" -> "birth_rate"
          [] c = "Broad money growth (annual %)" -> "broad_money_growth"
          [] c = "Final consumption expenditure (% of GDP)" -> "final_consum_gdp"
          [] c = "Final consumption expenditure (annual % growth)"
                 -> "final_consum_growth"
          [] c = "General government final consumption expenditure (annual % growth)"
                 -> "gov_final_consum_growth"
          [] c = "Gross capital formation (annual % growth)"
                 -> "gross_cap_form_growth"
          [] c = "Households and NPISHs Final consumption expenditure (annual % growth)"
                 -> "hh_consum_growth" ]

\* the names the mapping renames to
TargetNames == { column_names[c] : c \in SourceCols }

----------------------------------------------------------------------------
(* Values of the namespace *)

\* a name that no executed cell has bound yet
Undef == [kind |-> "undefined"]

IsDef(v) == v.kind # "undefined"

\* a data frame: its index (years), its columns, and the cells that hold NaN;
\* every other cell holds a finite float
Frame(rows, cols, nan) ==
    [kind |-> "frame", rows |-> rows, cols |-> cols, nan |-> nan]

\* no cell of the frame is missing
AllFinite(df) == df.nan = {}

----------------------------------------------------------------------------
(* The data loading cell *)

\* econ_df.replace('..','nan') followed by astype(float): the string 'nan'
\* parses to the float NaN, so every '..' cell becomes a NaN cell
replace_astype(df) == Frame(df.rows, df.cols, df.dots)

\* econ_df.loc['1969':'2016']: the rows whose year lies in the inclusive range
loc_years(df) ==
    LET keep == { y \in df.rows : YearLo <= y /\ y <= YearHi }
    IN  Frame(keep, df.cols, { cell \in df.nan : cell[1] \in keep })

\* the new header of column c under DataFrame.rename(columns = column_names):
\* a header that is a key is replaced, any other header is kept, and a key
\* that matches no header is ignored (errors = 'ignore' is the default)
renamed(c) == IF c \in DOMAIN column_names THEN column_names[c] ELSE c

\* rename with errors = 'raise': a key that matches no header is a KeyError
rename_strict(df) ==
    IF DOMAIN column_names \subseteq df.cols
    THEN Frame(df.rows,
               { renamed(c) : c \in df.cols },
               { <<cell[1], renamed(cell[2])>> : cell \in df.nan })
    ELSE [kind |-> "KeyError"]

rename(df) ==
    Frame(df.rows,
          { renamed(c) : c \in df.cols },
          { <<cell[1], renamed(cell[2])>> : cell \in df.nan })

\* the whole cell: the frame bound to econ_df when the cell ends
LoadedFrame(sheet) == rename(loc_years(replace_astype(sheet)))

----------------------------------------------------------------------------
(* Worksheets the model runs on *)

\* the year regression_model_2 predicts for: X_test.loc[2002]
PredictYear == 2002

\* Worksheets with no '..' cell and every mapped column, of consecutive
\* yearly rows.  The short ones start the year before YearLo, so the year
\* filter drops a row and keeps 2 to 4; the long ones start the year before
\* PredictYear and hold 5 to maxRows rows.
CleanSheets(maxRows) ==
    { [rows |-> (YearLo - 1) .. (YearLo - 2 + n), cols |-> SourceCols, dots |-> {}] :
        n \in 3 .. 5 }
    \cup
    { [rows |-> (PredictYear - 1) .. (PredictYear - 2 + n), cols |-> SourceCols,
       dots |-> {}] : n \in 5 .. maxRows }

\* the first and the last year of a set of rows
EdgeYears(rows) ==
    { y \in rows : (\A z \in rows : y <= z) \/ (\A z \in rows : z <= y) }

\* the columns a '..' cell is drawn from: the target, a feature of both fits,
\* and a column every fit drops
DotCols ==
    { "GDP growth (annual %)",
      "Population growth (annual %)",
      "Birth rate, crude (per 1,000 people)" }

\* the placements of at most MaxDots '..' cells in the first and last row
DotSets(rows, cols) ==
    { d \in SUBSET (EdgeYears(rows) \X (DotCols \cap cols)) :
        Cardinality(d) <= MaxDots }

\* the worksheets on the rows rs
SheetsOn(rs) ==
    UNION { { [rows |-> rs, cols |-> SourceCols \ absent, dots |-> ds] :
                ds \in DotSets(rs, SourceCols \ absent) } :
            absent \in { a \in SUBSET SourceCols : Cardinality(a) <= MaxAbsent } }

\* Worksheets as the World Bank exports them: consecutive yearly rows that
\* start the year before YearLo or end the year after YearHi, at most
\* MaxAbsent mapped columns absent, and at most MaxDots '..' cells, at the
\* ends of the series.
AllSheets ==
    UNION { SheetsOn(rs) :
            rs \in { (YearLo - 1) .. (YearLo - 2 + n) : n \in 1 .. MaxRows }
                   \cup { (YearHi + 2 - n) .. (YearHi + 1) : n \in 1 .. MaxRows } }

----------------------------------------------------------------------------
(* Data frames *)

\* The order of the columns in a frame: the order of column_names (the
\* worksheet itself is not part of the repository).
ColumnOrder ==
    << "unemployment", "gdp_growth", "gross_capital_formation", "pop_growth",
       "birth_rate", "broad_money_growth", "final_consum_gdp",
       "final_consum_growth", "gov_final_consum_growth",
       "gross_cap_form_growth", "hh_consum_growth" >>

ColRank(c) == CHOOSE i \in 1 .. Len(ColumnOrder) : ColumnOrder[i] = c

\* df.columns, as a sequence
Columns(df) ==
    LET present(c) == c \in df.cols
    IN  SelectSeq(ColumnOrder, present)

\* The float in row y, column c of the worksheet: small integers that differ
\* from year to year and from column to column stand for the indicators.
CellValue(y, c) == ((y + ColRank(c)) % 5) - 2

RECURSIVE RowSeq(_)
\* df.index as a sequence: the years in ascending order, as exported
RowSeq(rows) ==
    IF rows = {} THEN << >>
    ELSE LET y == CHOOSE r \in rows : \A z \in rows : r <= z
         IN  <<y>> \o RowSeq(rows \ {y})

\* df.drop(labels, axis = 1); pandas raises KeyError for a label not found
drop(df, labels) ==
    IF labels \subseteq df.cols
    THEN Frame(df.rows, df.cols \ labels,
               { cell \in df.nan : cell[2] \notin labels })
    ELSE [kind |-> "KeyError"]

\* df[[c]]
select(df, c) ==
    IF c \in df.cols
    THEN Frame(df.rows, {c}, { cell \in df.nan : cell[2] = c })
    ELSE [kind |-> "KeyError"]

\* the rows of df with index in rows
take(df, rows) ==
    Frame(rows, df.cols, { cell \in df.nan : cell[1] \in rows })

\* sm.add_constant(df): the column 'const' is added
add_constant(df) == Frame(df.rows, df.cols \cup {"const"}, df.nan)

----------------------------------------------------------------------------
(* train_test_split(X, Y, test_size = 0.20, random_state = 1) *)

\* test_size = 0.20 is one row in TestDen
TestDen == 5

\* n_test = ceil(test_size * n), n_train = n - n_test
n_test(n) == (n + TestDen - 1) \div TestDen
n_train(n) == n - n_test(n)

\* The positions a shuffle of n rows may send to the test set.  The seeded
\* generator fixes one of them for each n; lib.split records which.
TestPositions(n) == { P \in SUBSET (1 .. n) : Cardinality(P) = n_test(n) }

\* the years at the positions P of the index
RowsAt(rows, P) == { RowSeq(rows)[i] : i \in P }

\* a split that hands every row to the training side
split_frames_leaky(X, Y, P) ==
    [X_train |-> X, X_test |-> take(X, RowsAt(X.rows, P)),
     y_train |-> Y, y_test |-> take(Y, RowsAt(Y.rows, P))]

\* (X_train, X_test, y_train, y_test) for the test positions P: X and Y are
\* cut at the same positions
split_frames(X, Y, P) ==
    LET te == RowsAt(X.rows, P)
        tr == X.rows \ te
    IN  [X_train |-> take(X, tr), X_test |-> take(X, te),
         y_train |-> take(Y, RowsAt(Y.rows, (1 .. Cardinality(Y.rows)) \ P)),
         y_test |-> take(Y, RowsAt(Y.rows, P))]

----------------------------------------------------------------------------
(* LinearRegression: fit and predict *)

\* largest magnitude of a fitted coefficient in the model
MaxCoef == 2

\* The least-squares solutions the model draws from for k features: the
\* solver is a function of the training data, lib.lstsq records its value.
FitFamily(k) ==
    { [coef_ |-> [i \in 1 .. k |-> c * i], intercept_ |-> 0 - c] :
        c \in {0 - MaxCoef, MaxCoef} }

\* fit with the check n > k in front: rows against features plus intercept
LinearRegression_fit_checked(Xtr, ytr, params) ==
    IF Cardinality(Xtr.rows) <= Cardinality(Xtr.cols) + 1
    THEN [kind |-> "UnderdeterminedError"]
    ELSE [kind |-> "LinearRegression", coef_ |-> params.coef_,
          intercept_ |-> params.intercept_]

\* regression_model.fit(X_train, y_train) with the solver's answer params.
\* sklearn validates that the input is finite and has at least one row; it
\* compares the number of rows with the number of parameters nowhere.
LinearRegression_fit(Xtr, ytr, params) ==
    IF Xtr.rows = {} \/ ~AllFinite(Xtr) \/ ~AllFinite(ytr)
    THEN [kind |-> "ValueError"]
    ELSE [kind |-> "LinearRegression", coef_ |-> params.coef_,
          intercept_ |-> params.intercept_]

RECURSIVE Dot(_, _, _, _)
\* sum of coef[i] * row[cols[i]] over i <= k
Dot(coef, cols, y, k) ==
    IF k = 0 THEN 0
    ELSE Dot(coef, cols, y, k - 1) + coef[k] * CellValue(y, cols[k])

\* the prediction for one row: intercept_ + row . coef_
predict_row(m, cols, y) == m.intercept_ + Dot(m.coef_, cols, y, Len(cols))

\* m.predict(X): one value per row of X; a ValueError when X has another
\* number of columns than the model has coefficients
predict(m, X) ==
    IF Len(Columns(X)) # Len(m.coef_)
    THEN [kind |-> "ValueError"]
    ELSE [kind |-> "array",
          v |-> [i \in 1 .. Cardinality(X.rows) |->
                   predict_row(m, Columns(X), RowSeq(X.rows)[i])]]

----------------------------------------------------------------------------
(* sm.OLS(Y, X2).fit() *)

\* The results object: it keeps the design matrix (est.model.exog) and the
\* target; est.resid is a function of the two.  statsmodels raises
\* MissingDataError for a NaN in exog, and solves by pseudo-inverse whatever
\* the number of rows.
OLS_fit(Y, X2) ==
    IF ~AllFinite(X2)
    THEN [kind |-> "MissingDataError"]
    ELSE [kind |-> "OLSResults", exog |-> X2, endog |-> Y]

\* len(est.resid)
nobs(est) == Cardinality(est.exog.rows)

----------------------------------------------------------------------------
(* pickle *)

\* an encoding that keeps the magnitude and loses the sign
zigzag_unsigned(v) == IF v >= 0 THEN 2 * v ELSE 0 - 2 * v

\* a signed integer as a natural number
zigzag(v) == IF v >= 0 THEN 2 * v ELSE (0 - 2 * v) - 1

unzigzag(u) == IF u % 2 = 0 THEN u \div 2 ELSE 0 - ((u + 1) \div 2)

\* pickle.dump(regression_model, f): the stream written to f.  PROTO (0x80),
\* the number of coefficients, each coefficient, the intercept, STOP ('.');
\* pickle writes a float as its eight bytes, here a number as its encoding.
pickle_dumps(m) ==
    <<128, Len(m.coef_)>>
    \o [i \in 1 .. Len(m.coef_) |-> zigzag(m.coef_[i])]
    \o <<zigzag(m.intercept_), 46>>

\* pickle.load(pickle_file): the object a stream holds, or the error for a
\* stream that is cut short or is no pickle
pickle_loads(b) ==
    IF Len(b) >= 4 /\ b[1] = 128 /\ Len(b) = b[2] + 4 /\ b[Len(b)] = 46
    THEN [kind |-> "LinearRegression",
          coef_ |-> [i \in 1 .. b[2] |-> unzigzag(b[i + 2])],
          intercept_ |-> unzigzag(b[Len(b) - 1])]
    ELSE [kind |-> "UnpicklingError"]

----------------------------------------------------------------------------
(* sklearn.metrics *)

\* the values of a one-column frame, in index order
Values(df) ==
    [i \in 1 .. Cardinality(df.rows) |->
       CellValue(RowSeq(df.rows)[i], Columns(df)[1])]

Abs(x) == IF x < 0 THEN 0 - x ELSE x

RECURSIVE SumSq(_, _, _)
\* sum of (a[i] - b[i])^2 over i <= k
SumSq(a, b, k) ==
    IF k = 0 THEN 0
    ELSE SumSq(a, b, k - 1) + (a[k] - b[k]) * (a[k] - b[k])

RECURSIVE SumAbs(_, _, _)
SumAbs(a, b, k) ==
    IF k = 0 THEN 0 ELSE SumAbs(a, b, k - 1) + Abs(a[k] - b[k])

RECURSIVE Sum(_, _)
Sum(a, k) == IF k = 0 THEN 0 ELSE Sum(a, k - 1) + a[k]

\* check_consistent_length and check_array, which every metric calls first:
\* the two arrays have the same, non-zero number of samples
consistent(yt, yp) == Len(yt) = Len(yp) /\ Len(yt) > 0

\* a metric that pairs the values up to the shorter length and checks nothing
mean_squared_error_zip(yt, yp) ==
    LET n == IF Len(yt) < Len(yp) THEN Len(yt) ELSE Len(yp)
    IN  [kind |-> "float", num |-> SumSq(yt, yp, n), den |-> n]

\* mean_squared_error(y_true, y_pred), as the fraction num / den
mean_squared_error(yt, yp) ==
    IF ~consistent(yt, yp)
    THEN [kind |-> "ValueError"]
    ELSE [kind |-> "float", num |-> SumSq(yt, yp, Len(yt)), den |-> Len(yt)]

\* mean_absolute_error(y_true, y_pred)
mean_absolute_error(yt, yp) ==
    IF ~consistent(yt, yp)
    THEN [kind |-> "ValueError"]
    ELSE [kind |-> "float", num |-> SumAbs(yt, yp, Len(yt)), den |-> Len(yt)]

\* math.sqrt(model_mse)
sqrt(x) == [kind |-> "sqrt", of |-> x]

\* r2_score(y_true, y_pred) = 1 - ss_res / ss_tot, both sums times n
r2_score(yt, yp) ==
    IF ~consistent(yt, yp)
    THEN [kind |-> "ValueError"]
    ELSE LET n == Len(yt)
             ybar == [i \in 1 .. n |-> 0]
         IN  [kind |-> "r2",
              ss_res |-> n * SumSq(yt, yp, n),
              ss_tot |-> n * SumSq(yt, ybar, n) - Sum(yt, n) * Sum(yt, n)]

----------------------------------------------------------------------------
(* The diagnostic cells' decisions *)

\* the significance level of the three tests: 0.05
Threshold == 50

\* the p-values the model draws a test's result from: on, just below and
\* just above the significance level
PVals == {Threshold - 1, Threshold, Threshold + 1}

\* what the White branch prints for pval: if pval > 0.05 ... else ...
white_report(pval) ==
    IF pval > Threshold
    THEN << "We fail to reject the null hypthoesis, so there is no heteroscedasticity." >>
    ELSE << "We reject the null hypthoesis, so there is heteroscedasticity." >>

\* what the Breusch-Pagan branch prints for pval
bp_report(pval) ==
    IF pval > Threshold
    THEN << "We fail to reject the null hypthoesis, so there is no heteroscedasticity." >>
    ELSE << "We reject the null hypthoesis, so there is heteroscedasticity." >>

RECURSIVE PyMinFrom(_, _, _)
\* Python's min(): the running minimum m over p[i..], replaced on p[i] < m
PyMinFrom(p, i, m) ==
    IF i > Len(p) THEN m
    ELSE PyMinFrom(p, i + 1, IF p[i] < m THEN p[i] ELSE m)

PyMin(p) == PyMinFrom(p, 2, p[1])

\* the branch with >= for >
ljungbox_report_inclusive(p_val) ==
    IF PyMin(p_val) >= Threshold
    THEN << "We fail to reject the null hypthoesis, so there is no autocorrelation." >>
    ELSE << "We reject the null hypthoesis, so there is autocorrelation." >>

\* what the Ljung-Box branch prints for p_val: if min(p_val) > 0.05 ...
ljungbox_report(p_val) ==
    IF PyMin(p_val) > Threshold
    THEN << "We fail to reject the null hypthoesis, so there is no autocorrelation." >>
    ELSE << "We reject the null hypthoesis, so there is autocorrelation." >>

\* lag = min(10, (len(X)//5))
LagCap == 10
LagDiv == 5

Min(a, b) == IF a < b THEN a ELSE b

\* the lag acorr_ljungbox picks when it is given none: min(n // 2 - 2, 40)
lag_default(n) == Min((n \div 2) - 2, 40)

lag_of(n) == Min(LagCap, n \div LagDiv)

----------------------------------------------------------------------------
(* The state *)

\* the kernel's namespace before any cell has run
EmptyEnv ==
    [econ_df |-> Undef, econ_df_after |-> Undef, X2 |-> Undef,
     X |-> Undef, Y |-> Undef,
     X_train |-> Undef, X_test |-> Undef, y_train |-> Undef, y_test |-> Undef,
     regression_model |-> Undef, y_predict |-> Undef, est |-> Undef,
     pval |-> Undef, f_pval |-> Undef, lag |-> Undef, p_val |-> Undef,
     mean_residuals |-> Undef,
     model_mse |-> Undef, model_mae |-> Undef, model_rmse |-> Undef,
     model_r2 |-> Undef, regression_model_2 |-> Undef]

\* What the libraries have returned so far.  Each is a function of its
\* arguments: a value is drawn when the arguments are first seen and
\* returned again for the same arguments.
EmptyLib ==
    [split |-> << >>, lstsq |-> << >>, white |-> << >>, bp |-> << >>,
     ljungbox |-> << >>]

\* the decision statements each test printed when it last ran, and the
\* value the last cell displayed
EmptyOut == [white |-> << >>, bp |-> << >>, lb |-> << >>, predicted |-> Undef]

\* 'my_mulitlinear_regression.sav'
NoFile == [exists |-> FALSE, bytes |-> << >>]

\* the notebook with the Predictions cell moved down to the other
\* evaluation cells, below the diagnostics
CellOrder_predict_late ==
    << "load", "corr", "vif", "scatter", "describe", "zfilter", "build",
       "explore", "ols", "het", "robust", "ljungbox", "resid", "predict",
       "metrics", "r2", "confint", "pvalues", "summary", "rebuild", "reols",
       "save_open_w" >>

\* the code cells, top to bottom; the last cell is run statement by statement
CellOrder ==
    << "load", "corr", "vif", "scatter", "describe", "zfilter", "build",
       "explore", "predict", "ols", "het", "robust", "ljungbox", "resid",
       "metrics", "r2", "confint", "pvalues", "summary", "rebuild", "reols",
       "save_open_w" >>

\* the cells whose bindings no later cell reads: tables, plots and summaries
DisplayCells ==
    { "corr", "scatter", "describe", "zfilter", "explore", "robust",
      "confint", "pvalues", "summary" }

\* the cell below cell c
Below(c) ==
    LET i == CHOOSE j \in 1 .. Len(CellOrder) : CellOrder[j] = c
    IN  IF i < Len(CellOrder) THEN CellOrder[i + 1] ELSE "done"

\* the state with the kernel started on the worksheet sheet
InitOn(sheets) ==
    /\ raw \in sheets
    /\ env = EmptyEnv
    /\ lib = EmptyLib
    /\ file = NoFile
    /\ handles = {}
    /\ out = EmptyOut
    /\ pc = "load"

Init == InitOn(CleanSheets(MaxRows))

\* a call that draws anew every time, as a split without random_state does
Returns_unseeded(f, k, v) == TRUE

\* f(k), drawn from choices the first time and repeated afterwards
Returns(f, k, v) == k \in DOMAIN f => v = f[k]

Remember(f, k, v) == f @@ (k :> v)

----------------------------------------------------------------------------
(* Cells: loading and screening *)

\* Load the Data into Pandas.  econ_df is rebound statement by statement;
\* a statement that raises leaves the last binding.
LoadData ==
    /\ pc = "load"
    /\ LET filtered == loc_years(replace_astype(raw))
           df == rename(filtered)
       IN  IF df.kind = "frame"
           THEN env' = [env EXCEPT !.econ_df = df] /\ pc' = Below(pc)
           ELSE env' = [env EXCEPT !.econ_df = filtered] /\ pc' = "aborted"
    /\ UNCHANGED <<raw, lib, file, handles, out>>

\* a cell that only displays
Display ==
    /\ pc \in DisplayCells
    /\ pc' = Below(pc)
    /\ UNCHANGED <<raw, env, lib, file, handles, out>>

\* the columns the variance-inflation cell drops
VifDrop == {"gdp_growth", "birth_rate", "final_consum_growth", "gross_capital_formation"}

\* Variance Inflation Factor: binds econ_df_after and X2, displays the series
Vif ==
    /\ pc = "vif"
    /\ LET after == drop(env.econ_df, VifDrop)
       IN  IF after.kind = "frame"
           THEN /\ env' = [env EXCEPT !.econ_df_after = after,
                                      !.X2 = add_constant(after)]
                /\ pc' = Below(pc)
           ELSE env' = env /\ pc' = "aborted"
    /\ UNCHANGED <<raw, lib, file, handles, out>>

----------------------------------------------------------------------------
(* Cells: the two fits *)

\* the columns each Build the Model cell drops
BuildDrop == {"birth_rate", "final_consum_growth", "gross_capital_formation"}

RebuildDrop == BuildDrop \cup {"broad_money_growth", "unemployment"}

\* the cell with a prediction of the new test split as its last statement
BuildEnv_repredict(e, dropped, P, params) ==
    LET after == drop(e.econ_df, dropped)
    IN  IF after.kind # "frame" THEN [env |-> e, ok |-> FALSE]
        ELSE
        LET X == drop(after, {"gdp_growth"})
            Y == select(after, "gdp_growth")
            sp == split_frames(X, Y, P)
            m == LinearRegression_fit(sp.X_train, sp.y_train, params)
        IN  [env |-> [e EXCEPT !.econ_df_after = after, !.X = X, !.Y = Y,
                               !.X_train = sp.X_train, !.y_train = sp.y_train,
                               !.X_test = sp.X_test, !.y_test = sp.y_test,
                               !.regression_model = m,
                               !.y_predict = predict(m, sp.X_test)],
             ok |-> TRUE]

\* the cell with the split assigned to X_train, y_train only once X_test is
\* bound: the test frames of an earlier split stay
BuildEnv_stale_test(e, dropped, P, params) ==
    LET after == drop(e.econ_df, dropped)
    IN  IF after.kind # "frame" THEN [env |-> e, ok |-> FALSE]
        ELSE
        LET X == drop(after, {"gdp_growth"})
            Y == select(after, "gdp_growth")
            sp == split_frames(X, Y, P)
            m == LinearRegression_fit(sp.X_train, sp.y_train, params)
            e2 == [e EXCEPT !.econ_df_after = after, !.X = X, !.Y = Y,
                            !.X_train = sp.X_train, !.y_train = sp.y_train,
                            !.regression_model = m]
        IN  [env |-> IF IsDef(e.X_test) THEN e2
                     ELSE [e2 EXCEPT !.X_test = sp.X_test, !.y_test = sp.y_test],
             ok |-> TRUE]

\* The namespace after the statements of a Build the Model cell, for the
\* shuffle P and the solver's answer params; ok is false when a statement
\* raised, and the bindings made before it stay.
BuildEnv(e, dropped, P, params) ==
    LET after == drop(e.econ_df, dropped)
    IN  IF after.kind # "frame" THEN [env |-> e, ok |-> FALSE]
        ELSE
        LET e1 == [e EXCEPT !.econ_df_after = after]
            X == drop(after, {"gdp_growth"})
        IN  IF X.kind # "frame" THEN [env |-> e1, ok |-> FALSE]
            ELSE
            LET Y == select(after, "gdp_growth")
                e2 == [e1 EXCEPT !.X = X, !.Y = Y]
                n == Cardinality(X.rows)
            IN  IF n = 0 \/ n_train(n) = 0 THEN [env |-> e2, ok |-> FALSE]
                ELSE
                LET sp == split_frames(X, Y, P)
                    m == LinearRegression_fit(sp.X_train, sp.y_train, params)
                    e3 == [e2 EXCEPT !.X_train = sp.X_train, !.X_test = sp.X_test,
                                     !.y_train = sp.y_train, !.y_test = sp.y_test]
                IN  IF m.kind # "LinearRegression"
                    THEN [env |-> [e3 EXCEPT !.regression_model =
                                      [kind |-> "unfitted"]],
                          ok |-> FALSE]
                    ELSE [env |-> [e3 EXCEPT !.regression_model = m],
                          ok |-> TRUE]

\* the number of rows train_test_split is given
RowsToSplit(e, dropped) ==
    LET after == drop(e.econ_df, dropped)
    IN  IF after.kind = "frame" THEN Cardinality(after.rows) ELSE 0

\* the key of the least-squares problem: the training rows and the features
FitKey(e, dropped, P) ==
    LET after == drop(e.econ_df, dropped)
    IN  IF after.kind = "frame"
        THEN <<after.cols \ {"gdp_growth"},
               after.rows \ RowsAt(after.rows, P)>>
        ELSE << {}, {} >>

BuildCell(dropped) ==
    LET n == RowsToSplit(env, dropped)
    IN  \E P \in TestPositions(n) :
        \E params \in FitFamily(Cardinality(FitKey(env, dropped, P)[1])) :
           /\ Returns(lib.split, n, P)
           /\ Returns(lib.lstsq, FitKey(env, dropped, P), params)
           /\ LET r == BuildEnv(env, dropped, P, params)
              IN  /\ env' = r.env
                  /\ pc' = IF r.ok THEN Below(pc) ELSE "aborted"
           /\ lib' = [lib EXCEPT
                        !.split = Remember(@, n, P),
                        !.lstsq = Remember(@, FitKey(env, dropped, P), params)]
           /\ UNCHANGED <<raw, file, handles, out>>

\* Build the Model
Build == pc = "build" /\ BuildCell(BuildDrop)

\* Remove the Insignificant Variables: the same cell with a longer drop list
Rebuild == pc = "rebuild" /\ BuildCell(RebuildDrop)

\* Predictions: y_predict = regression_model.predict(X_test)
Predict ==
    /\ pc = "predict"
    /\ LET yp == predict(env.regression_model, env.X_test)
       IN  IF yp.kind = "array"
           THEN env' = [env EXCEPT !.y_predict = yp] /\ pc' = Below(pc)
           ELSE env' = env /\ pc' = "aborted"
    /\ UNCHANGED <<raw, lib, file, handles, out>>

\* X2 = sm.add_constant(X); model = sm.OLS(Y, X2); est = model.fit()
OlsCell ==
    LET X2 == add_constant(env.X)
        est == OLS_fit(env.Y, X2)
    IN  /\ IF est.kind = "OLSResults"
           THEN env' = [env EXCEPT !.X2 = X2, !.est = est] /\ pc' = Below(pc)
           ELSE env' = [env EXCEPT !.X2 = X2] /\ pc' = "aborted"
        /\ UNCHANGED <<raw, lib, file, handles, out>>

Ols == pc = "ols" /\ OlsCell

Reols == pc = "reols" /\ OlsCell

----------------------------------------------------------------------------
(* Cells: the diagnostics *)

Float(v) == [kind |-> "float", v |-> v]

\* the F-test p-value a heteroscedasticity test returns beside its p-value:
\* printed, never branched on
FPval(test, est) == [kind |-> "f_pvalue", test |-> test, est |-> est]

\* the cell with the second result bound to another name than pval: the
\* Breusch-Pagan branch then reads the White p-value
het_cell_shared(e, pw, pb) ==
    [white |-> white_report(pw),
     bp |-> bp_report(pw),
     env |-> [e EXCEPT !.pval = Float(pw), !.f_pval = FPval("white", e.est)]]

\* the cell with the White branch placed before the call that binds pval:
\* the branch then reads the pval an earlier run left bound
het_cell_stale(e, pw, pb) ==
    [white |-> white_report(IF IsDef(e.pval) THEN e.pval.v ELSE pw),
     bp |-> bp_report(pb),
     env |-> [e EXCEPT !.pval = Float(pb), !.f_pval = FPval("breuschpagan", e.est)]]

\* What the heteroscedasticity cell prints and leaves bound when het_white
\* returns pw and het_breuschpagan returns pb: pval and f_pval are rebound
\* by the second call, before the second branch reads pval.
het_cell(e, pw, pb) ==
    [white |-> white_report(pw),
     bp |-> bp_report(pb),
     env |-> [e EXCEPT !.pval = Float(pb), !.f_pval = FPval("breuschpagan", e.est)]]

\* Checking for Heteroscedasticity: both tests read est.resid and
\* est.model.exog
HetCell ==
    \E pw \in PVals, pb \in PVals :
       /\ Returns(lib.white, env.est, pw)
       /\ Returns(lib.bp, env.est, pb)
       /\ LET r == het_cell(env, pw, pb)
          IN  /\ env' = r.env
              /\ out' = [out EXCEPT !.white = r.white, !.bp = r.bp]
       /\ lib' = [lib EXCEPT !.white = Remember(@, env.est, pw),
                             !.bp = Remember(@, env.est, pb)]
       /\ UNCHANGED <<raw, file, handles>>

\* the p-values acorr_ljungbox may return for lags 1 .. k
LagPVals(k) == [1 .. k -> PVals]

\* What the Ljung-Box cell leaves bound and prints.  acorr_ljungbox raises
\* for lags = 0 (there is no lag to test); lag is bound by then.
ljungbox_cell(e, pv) ==
    LET k == lag_of(Cardinality(e.X.rows))
        e1 == [e EXCEPT !.lag = [kind |-> "int", v |-> k]]
    IN  IF k = 0
        THEN [env |-> e1, lb |-> << >>, ok |-> FALSE]
        ELSE [env |-> [e1 EXCEPT !.p_val = [kind |-> "array", v |-> pv]],
              lb |-> ljungbox_report(pv), ok |-> TRUE]

\* Checking for Autocorrelation; raised tells whether the cell raised
LjungBoxCell(raised) ==
    LET k == lag_of(Cardinality(env.X.rows))
        key == <<env.est, k>>
    IN  \E pv \in LagPVals(k) :
           /\ Returns(lib.ljungbox, key, pv)
           /\ LET r == ljungbox_cell(env, pv)
              IN  /\ env' = r.env
                  /\ out' = [out EXCEPT !.lb = r.lb]
                  /\ raised = ~r.ok
                  /\ lib' = IF r.ok
                            THEN [lib EXCEPT !.ljungbox = Remember(@, key, pv)]
                            ELSE lib
           /\ UNCHANGED <<raw, file, handles>>

\* mean_residuals = sum(est.resid) / len(est.resid)
ResidCell ==
    /\ env' = [env EXCEPT !.mean_residuals =
                 [kind |-> "mean", of |-> "resid", est |-> env.est]]
    /\ UNCHANGED <<raw, lib, file, handles, out>>

Het == pc = "het" /\ HetCell /\ pc' = Below(pc)

LjungBox ==
    /\ pc = "ljungbox"
    /\ \E raised \in BOOLEAN :
          LjungBoxCell(raised) /\ pc' = IF raised THEN "aborted" ELSE Below(pc)

Resid == pc = "resid" /\ ResidCell /\ pc' = Below(pc)

----------------------------------------------------------------------------
(* Cells: the error metrics *)

\* Measures of Error: MSE, MAE and RMSE of y_predict against y_test; a
\* metric that raises ends the cell with the earlier bindings made
metrics_cell(e) ==
    LET mse == mean_squared_error(Values(e.y_test), e.y_predict.v)
        mae == mean_absolute_error(Values(e.y_test), e.y_predict.v)
    IN  IF mse.kind # "float" THEN [env |-> e, ok |-> FALSE]
        ELSE IF mae.kind # "float"
        THEN [env |-> [e EXCEPT !.model_mse = mse], ok |-> FALSE]
        ELSE [env |-> [e EXCEPT !.model_mse = mse, !.model_mae = mae,
                                !.model_rmse = sqrt(mse)],
              ok |-> TRUE]

Metrics ==
    /\ pc = "metrics"
    /\ LET r == metrics_cell(env)
       IN  env' = r.env /\ pc' = IF r.ok THEN Below(pc) ELSE "aborted"
    /\ UNCHANGED <<raw, lib, file, handles, out>>

\* R-Squared: model_r2 = r2_score(y_test, y_predict)
r2_cell(e) ==
    LET r2 == r2_score(Values(e.y_test), e.y_predict.v)
    IN  IF r2.kind # "r2" THEN [env |-> e, ok |-> FALSE]
        ELSE [env |-> [e EXCEPT !.model_r2 = r2], ok |-> TRUE]

R2 ==
    /\ pc = "r2"
    /\ LET r == r2_cell(env)
       IN  env' = r.env /\ pc' = IF r.ok THEN Below(pc) ELSE "aborted"
    /\ UNCHANGED <<raw, lib, file, handles, out>>

----------------------------------------------------------------------------
(* The last cell: Save the Model for Future Use *)

\* with open('my_mulitlinear_regression.sav','wb') as f
WriteHandle == [var |-> "f", mode |-> "wb"]

\* with open('my_mulitlinear_regression.sav', 'rb') as pickle_file
ReadHandle == [var |-> "pickle_file", mode |-> "rb"]

\* open and close without with: a body that raises skips the close
release_unless_raised(hs, h, raised) == IF raised THEN hs ELSE hs \ {h}

\* the handles still open after a with block is left for handle h, raised
\* telling whether its body raised: __exit__ closes the file either way
release(hs, h, raised) == hs \ {h}

\* open(..., 'wb'): creates or truncates the file; the operating system may
\* refuse, and then no handle exists
OpenWrite ==
    /\ pc = "save_open_w"
    /\ \E ok \in BOOLEAN :
          IF ok
          THEN /\ handles' = handles \cup {WriteHandle}
               /\ file' = [exists |-> TRUE, bytes |-> << >>]
               /\ pc' = "save_dump"
          ELSE /\ UNCHANGED <<handles, file>>
               /\ pc' = "aborted"
    /\ UNCHANGED <<raw, env, lib, out>>

\* pickle.dump(regression_model, f); a write may fail part way
Dump ==
    /\ pc = "save_dump"
    /\ LET stream == pickle_dumps(env.regression_model)
       IN  \E ok \in BOOLEAN :
              IF ok
              THEN /\ file' = [file EXCEPT !.bytes = stream]
                   /\ pc' = "save_exit_w"
              ELSE /\ \E k \in {0, Len(stream) - 1} :
                         file' = [file EXCEPT !.bytes = SubSeq(stream, 1, k)]
                   /\ pc' = "save_exit_w_raised"
    /\ UNCHANGED <<raw, env, lib, handles, out>>

\* leaving the first with block
ExitWrite ==
    /\ pc \in {"save_exit_w", "save_exit_w_raised"}
    /\ handles' = release(handles, WriteHandle, pc = "save_exit_w_raised")
    /\ pc' = IF pc = "save_exit_w" THEN "save_open_r" ELSE "aborted"
    /\ UNCHANGED <<raw, env, lib, file, out>>

\* open(..., 'rb')
OpenRead ==
    /\ pc = "save_open_r"
    /\ \E ok \in BOOLEAN :
          IF ok /\ file.exists
          THEN handles' = handles \cup {ReadHandle} /\ pc' = "save_load"
          ELSE UNCHANGED handles /\ pc' = "aborted"
    /\ UNCHANGED <<raw, env, lib, file, out>>

\* regression_model_2 = pickle.load(pickle_file); a read may fail
Load ==
    /\ pc = "save_load"
    /\ LET m == pickle_loads(file.bytes)
       IN  \E ok \in BOOLEAN :
              IF ok /\ m.kind = "LinearRegression"
              THEN /\ env' = [env EXCEPT !.regression_model_2 = m]
                   /\ pc' = "save_exit_r"
              ELSE UNCHANGED env /\ pc' = "save_exit_r_raised"
    /\ UNCHANGED <<raw, lib, file, handles, out>>

\* leaving the second with block
ExitRead ==
    /\ pc \in {"save_exit_r", "save_exit_r_raised"}
    /\ handles' = release(handles, ReadHandle, pc = "save_exit_r_raised")
    /\ pc' = IF pc = "save_exit_r" THEN "save_predict" ELSE "aborted"
    /\ UNCHANGED <<raw, env, lib, file, out>>

\* regression_model_2.predict([X_test.loc[2002]]); .loc raises KeyError for
\* a year that is not in X_test
PredictLoaded ==
    /\ pc = "save_predict"
    /\ IF PredictYear \notin env.X_test.rows
       THEN UNCHANGED out /\ pc' = "aborted"
       ELSE LET yp == predict(env.regression_model_2,
                              take(env.X_test, {PredictYear}))
            IN  IF yp.kind = "array"
                THEN out' = [out EXCEPT !.predicted = yp] /\ pc' = "done"
                ELSE UNCHANGED out /\ pc' = "aborted"
    /\ UNCHANGED <<raw, env, lib, file, handles>>

----------------------------------------------------------------------------
(* The top-to-bottom run *)

Next ==
    \/ LoadData
    \/ Display
    \/ Vif
    \/ Build
    \/ Predict
    \/ Ols
    \/ Het
    \/ LjungBox
    \/ Resid
    \/ Metrics
    \/ R2
    \/ Rebuild
    \/ Reols
    \/ OpenWrite
    \/ Dump
    \/ ExitWrite
    \/ OpenRead
    \/ Load
    \/ ExitRead
    \/ PredictLoaded

Spec == Init /\ [][Next]_vars

----------------------------------------------------------------------------
(* The data loading cell on any worksheet *)

InitLoader == InitOn(AllSheets)

SpecLoader == InitLoader /\ [][LoadData]_vars

\* the columns some fit uses: the target and the features of the first fit
ModelCols == TargetNames \ BuildDrop

\* C5: once the data loading cell has run, no cell of a column used for
\* modelling is missing in econ_df.
C5_NoMissingAfterLoad ==
    pc # "load" =>
        /\ env.econ_df.kind = "frame"
        /\ \A cell \in env.econ_df.nan : cell[2] \notin ModelCols

\* C8, read as a failure: when a key of column_names is absent from the worksheet the
\* cell fails, and a table it returns has every mapped target name.
C8_RenameFailsOnAbsentKey ==
    pc # "load" =>
        /\ (DOMAIN column_names \subseteq raw.cols) \/ pc = "aborted"
        /\ pc # "aborted" => TargetNames \subseteq env.econ_df.cols

\* C8: the cell never fails for an absent key; the table it
\* returns has a mapped target name exactly when the key is a column of the
\* worksheet, and no key is left as a header.
C8_RenameIgnoresAbsentKey ==
    pc # "load" =>
        /\ pc = "corr"
        /\ env.econ_df.kind = "frame"
        /\ \A k \in DOMAIN column_names :
              column_names[k] \in env.econ_df.cols <=> k \in raw.cols
        /\ \A c \in env.econ_df.cols : c \notin DOMAIN column_names

\* the cell has run on a worksheet without the GDP growth column
C8_Witness ==
    /\ pc = "corr"
    /\ "GDP growth (annual %)" \notin raw.cols
    /\ "gdp_growth" \notin env.econ_df.cols
    /\ "unemployment" \in env.econ_df.cols

----------------------------------------------------------------------------
(* The diagnostic cells run by hand, in any order, on one fitted model *)

\* most lags the Ljung-Box test is run with
MaxLag == 2

\* long worksheets on which the Ljung-Box lag is 0, 1, ..., MaxLag
DiagSheets ==
    { [rows |-> (PredictYear - 1) .. (PredictYear - 2 + n), cols |-> SourceCols,
       dots |-> {}] : n \in {LagDiv - 1} \cup { LagDiv * l : l \in 1 .. MaxLag } }

\* The kernel started on such a worksheet.  The shuffle of train_test_split,
\* which no diagnostic reads, is the one that sends the first rows to the
\* test set.
InitDiag ==
    /\ raw \in DiagSheets
    /\ env = EmptyEnv
    /\ lib = [EmptyLib EXCEPT !.split =
                LET n == Cardinality(LoadedFrame(raw).rows)
                IN  n :> (1 .. n_test(n))]
    /\ file = NoFile
    /\ handles = {}
    /\ out = EmptyOut
    /\ pc = "load"

\* the cells above the diagnostics, run top to bottom
RunAbove == pc # "het" /\ (LoadData \/ Display \/ Vif \/ Build \/ Predict \/ Ols)

\* a diagnostic cell run by hand: the run stays where it is
AnyHet == pc = "het" /\ HetCell /\ UNCHANGED pc

AnyLjungBox ==
    pc = "het" /\ (\E raised \in BOOLEAN : LjungBoxCell(raised)) /\ UNCHANGED pc

AnyResid == pc = "het" /\ ResidCell /\ UNCHANGED pc

NextDiag == RunAbove \/ AnyHet \/ AnyLjungBox \/ AnyResid

SpecDiag == InitDiag /\ [][NextDiag]_vars

NoHetStatement ==
    "We fail to reject the null hypthoesis, so there is no heteroscedasticity."

HetStatement == "We reject the null hypthoesis, so there is heteroscedasticity."

NoAutoStatement ==
    "We fail to reject the null hypthoesis, so there is no autocorrelation."

AutoStatement == "We reject the null hypthoesis, so there is autocorrelation."

\* the p-value het_white returned for est, and het_breuschpagan
WhiteP == lib.white[env.est]

BreuschPaganP == lib.bp[env.est]

\* C1: each heteroscedasticity test prints exactly one decision statement:
\* 'fail to reject, no heteroscedasticity' exactly when the p-value that
\* test itself returned is above 0.05, and 'reject, heteroscedasticity'
\* otherwise.
C1_HetDecisionOnOwnPValue ==
    /\ out.white # << >> =>
          /\ Len(out.white) = 1
          /\ out.white[1] = NoHetStatement <=> WhiteP > Threshold
          /\ out.white[1] = HetStatement <=> ~(WhiteP > Threshold)
    /\ out.bp # << >> =>
          /\ Len(out.bp) = 1
          /\ out.bp[1] = NoHetStatement <=> BreuschPaganP > Threshold
          /\ out.bp[1] = HetStatement <=> ~(BreuschPaganP > Threshold)
          /\ env.pval = Float(BreuschPaganP)

\* the two tests have decided differently on the same model
C1_Witness ==
    /\ out.white = <<NoHetStatement>>
    /\ out.bp = <<HetStatement>>
    /\ WhiteP = Threshold + 1
    /\ BreuschPaganP = Threshold

LeastLagP ==
    CHOOSE m \in { env.p_val.v[i] : i \in 1 .. Len(env.p_val.v) } :
        \A i \in 1 .. Len(env.p_val.v) : m <= env.p_val.v[i]

\* the statement a test printed is the rejection for a p-value at or just
\* below the level and the acceptance just above it
Boundary(printed, p, accept, reject) ==
    /\ p = Threshold => printed = <<reject>>
    /\ p = Threshold - 1 => printed = <<reject>>
    /\ p = Threshold + 1 => printed = <<accept>>

\* C3: a p-value of exactly 0.05 sends White, Breusch-Pagan and Ljung-Box
\* (on its minimum) to the same branch, the rejection; just above 0.05 all
\* three fail to reject, just below all three reject.
C3_BoundaryIsExclusive ==
    /\ out.white # << >> => Boundary(out.white, WhiteP, NoHetStatement, HetStatement)
    /\ out.bp # << >> => Boundary(out.bp, BreuschPaganP, NoHetStatement, HetStatement)
    /\ out.lb # << >> => Boundary(out.lb, LeastLagP, NoAutoStatement, AutoStatement)

\* all three tests have decided on a p-value of exactly 0.05
C3_Witness ==
    /\ out.white = <<HetStatement>> /\ WhiteP = Threshold
    /\ out.bp = <<HetStatement>> /\ BreuschPaganP = Threshold
    /\ out.lb = <<AutoStatement>> /\ LeastLagP = Threshold

\* what a diagnostic step leaves alone: the fitted model and its data, and
\* every decision and residual mean reported before the step
DiagFrame ==
    /\ env'.est = env.est
    /\ env'.X = env.X /\ env'.Y = env.Y /\ env'.X2 = env.X2
    /\ out.white # << >> => out'.white = out.white
    /\ out.bp # << >> => out'.bp = out.bp
    /\ out.lb # << >> => out'.lb = out.lb
    /\ IsDef(env.mean_residuals) => env'.mean_residuals = env.mean_residuals

\* what each test reports when it is the only one run on est
ReportsAsAlone ==
    /\ out.white # << >> => out.white = white_report(WhiteP)
    /\ out.bp # << >> => out.bp = bp_report(BreuschPaganP)
    /\ out.lb # << >> =>
          out.lb = ljungbox_report(lib.ljungbox[<<env.est, env.lag.v>>])
    /\ IsDef(env.mean_residuals) => env.mean_residuals.est = env.est

\* C10: run in any order and any number of times on the same est, every
\* diagnostic leaves est, X, Y and X2 unchanged, reports what it reports when
\* run alone, and never changes what another test or an earlier run of
\* itself reported, although pval and f_pval are rebound by each
\* heteroscedasticity test.
C10_DiagnosticsIndependent ==
    /\ [][pc = "het" => DiagFrame]_vars
    /\ [](pc = "het" => ReportsAsAlone)

\* the heteroscedasticity cell has run after the Ljung-Box and residual
\* cells, with a White result on the other side of the level than the
\* Breusch-Pagan result left in pval
C10_Witness ==
    /\ pc = "het"
    /\ out.lb # << >> /\ IsDef(env.mean_residuals)
    /\ out.white = <<NoHetStatement>>
    /\ env.pval = Float(Threshold)
    /\ env.f_pval = FPval("breuschpagan", env.est)

----------------------------------------------------------------------------
(* The two metric cells on any pair of vectors *)

\* most values a vector holds
MaxLen == 5

\* the kernel with no worksheet loaded
NoSheet == [rows |-> {}, cols |-> SourceCols, dots |-> {}]

\* y_test and y_predict bound to vectors of 1 to MaxLen values; the cells
\* are run from the first, and the second also on its own when the vectors
\* differ in length
InitEval ==
    /\ raw = NoSheet
    /\ \E a \in 1 .. MaxLen, b \in 1 .. MaxLen :
       \E yp \in [1 .. b -> -1 .. 1] :
          /\ env = [EmptyEnv EXCEPT
                      !.y_test = Frame(PredictYear .. (PredictYear + a - 1),
                                       {"gdp_growth"}, {}),
                      !.y_predict = [kind |-> "array", v |-> yp]]
          /\ pc = "metrics" \/ (pc = "r2" /\ a # b)
    /\ lib = EmptyLib
    /\ file = NoFile
    /\ handles = {}
    /\ out = EmptyOut

NextEval == Metrics \/ R2

SpecEval == InitEval /\ [][NextEval]_vars

\* C7: with true and predicted vectors of different length every metric
\* call raises and none of MSE, MAE, RMSE, R2 is bound; with vectors of the
\* same length all four are.
C7_MetricsNeedEqualLength ==
    LET differ == Cardinality(env.y_test.rows) # Len(env.y_predict.v)
        bound == { f \in {"model_mse", "model_mae", "model_rmse", "model_r2"} :
                     IsDef(env[f]) }
    IN  /\ differ => bound = {} /\ pc \in {"metrics", "r2", "aborted"}
        /\ ~differ =>
              /\ pc # "aborted"
              /\ pc = "r2" => /\ env.model_mse.kind = "float"
                              /\ env.model_mae.kind = "float"
                              /\ env.model_rmse = sqrt(env.model_mse)
              /\ pc = "confint" => /\ env.model_r2.kind = "r2"
                                   /\ Cardinality(bound) = 4

\* the metric cell has raised on 5 true and 4 predicted values
C7_Witness ==
    /\ pc = "aborted"
    /\ Cardinality(env.y_test.rows) = 5
    /\ Len(env.y_predict.v) = 4
    /\ ~IsDef(env.model_mse)

----------------------------------------------------------------------------
(* The Save the Model cell on any fitted model *)

\* most features of a model that is saved
MaxFeatures == 2

\* the features of the second fit, in column order
TrimmedFeatures ==
    LET kept(c) == c \notin RebuildDrop \cup {"gdp_growth"}
    IN  SelectSeq(ColumnOrder, kept)

\* a file left by an earlier session
StaleFile == [exists |-> TRUE, bytes |-> <<128, 0>>]

\* regression_model bound to a model of 1 to MaxFeatures features with any
\* coefficients and intercept, X_test to two rows of those features with or
\* without the year 2002, before the cell's first statement
InitPickle ==
    /\ raw = NoSheet
    /\ \E k \in 1 .. MaxFeatures, first \in {PredictYear - 1, PredictYear} :
       \E coef \in [1 .. k -> -MaxCoef .. MaxCoef], b \in -MaxCoef .. MaxCoef :
          env = [EmptyEnv EXCEPT
                   !.regression_model =
                       [kind |-> "LinearRegression", coef_ |-> coef,
                        intercept_ |-> b],
                   !.X_test =
                       Frame({first, first + 2},
                             { TrimmedFeatures[i] : i \in 1 .. k }, {})]
    /\ pc = "save_open_w"
    /\ lib = EmptyLib
    /\ file \in {NoFile, StaleFile}
    /\ handles = {}
    /\ out = EmptyOut

NextPickle ==
    \/ OpenWrite
    \/ Dump
    \/ ExitWrite
    \/ OpenRead
    \/ Load
    \/ ExitRead
    \/ PredictLoaded

SpecPickle == InitPickle /\ [][NextPickle]_vars

----------------------------------------------------------------------------
(* The fits and the file handles in the top-to-bottom run *)

\* the rows and the parameters of the fit that made regression_model
TrainRows == Cardinality(env.X_train.rows)
TrainParams == Cardinality(env.X_train.cols) + 1

C9_HandlesScoped ==
    /\ Cardinality(handles) <= 1
    /\ WriteHandle \in handles =>
          pc \in {"save_dump", "save_exit_w", "save_exit_w_raised"}
    /\ ReadHandle \in handles =>
          pc \in {"save_load", "save_exit_r", "save_exit_r_raised"}
    /\ pc \in {"save_open_r", "save_predict", "done", "aborted"} =>
          handles = {}

\* pickle.dump raised part way: the file holds a cut stream, the cell has
\* ended and the write handle is closed
C9_Witness ==
    /\ pc = "aborted"
    /\ file.exists
    /\ IsDef(env.regression_model)
    /\ file.bytes # pickle_dumps(env.regression_model)
    /\ Len(file.bytes) > 0
    /\ handles = {}

----------------------------------------------------------------------------
(* The order of the stages in the top-to-bottom run *)

\* every position of the run, in the order the run can pass them
PcOrder ==
    CellOrder \o << "save_dump", "save_exit_w", "save_exit_w_raised",
                    "save_open_r", "save_load", "save_exit_r",
                    "save_exit_r_raised", "save_predict", "done", "aborted" >>

\* the place of every position in that order
PcRanks ==
    [c \in { PcOrder[j] : j \in 1 .. Len(PcOrder) } |->
       CHOOSE j \in 1 .. Len(PcOrder) : PcOrder[j] = c]

PcRank(c) == PcRanks[c]

\* the component a cell belongs to, by what the cell does: the fits of
\* either library are the Fitter, the tests on est.resid the Diagnostics,
\* predictions, metrics and the tables of est the Evaluator
StageOf(c) ==
    CASE c = "load" -> "Loader"
      [] c \in {"corr", "vif", "scatter", "describe", "zfilter"} -> "Screener"
      [] c \in {"build", "explore", "ols", "rebuild", "reols"} -> "Fitter"
      [] c \in {"het", "robust", "ljungbox", "resid"} -> "Diagnostics"
      [] c \in {"predict", "metrics", "r2", "confint", "pvalues", "summary"}
           -> "Evaluator"
      [] c \in {"done", "aborted"} -> "End"
      [] OTHER -> "Persister"

\* the number of the stage visit every position belongs to
Phases ==
    [c \in DOMAIN PcRanks |->
       1 + Cardinality({ j \in 1 .. (PcRanks[c] - 1) :
                           StageOf(PcOrder[j]) # StageOf(PcOrder[j + 1]) })]

Phase(c) == Phases[c]

\* the features of the second fit
TrimmedCols == (TargetNames \ RebuildDrop) \ {"gdp_growth"}

\* all three residual tests and the residual mean have reported
DiagnosticsRan ==
    /\ out.white # << >> /\ out.bp # << >> /\ out.lb # << >>
    /\ IsDef(env.mean_residuals)

\* the refit on the trimmed feature set has run
Refitted == IsDef(env.X) /\ env.X.cols = TrimmedCols

StageRank(s) ==
    CASE s = "Loader" -> 1 [] s = "Screener" -> 2 [] s = "Fitter" -> 3
      [] s = "Diagnostics" -> 4 [] OTHER -> 5

RunStages ==
    << "Loader", "Screener", "Fitter", "Evaluator", "Fitter", "Diagnostics",
       "Evaluator", "Fitter", "Persister", "End" >>

----------------------------------------------------------------------------
(* The notebook run again in a fresh kernel on the same worksheet *)

\* most rows of a worksheet that is run twice
MaxRowsTwice == 6

\* Restart and Run All after a run has ended: the namespace is empty again;
\* the worksheet, the libraries and the saved file are what they were, and
\* each cell's output stays on the page until the cell runs again.
Restart ==
    /\ pc \in {"done", "aborted"}
    /\ pc' = "load"
    /\ env' = EmptyEnv
    /\ handles' = {}
    /\ UNCHANGED <<raw, lib, file, out>>

InitTwice == InitOn(CleanSheets(MaxRowsTwice))

NextTwice == Next \/ Restart

SpecTwice == InitTwice /\ [][NextTwice]_vars

\* the test rows train_test_split(random_state = 1) gives for n rows
SeededTestRows(rows) == RowsAt(rows, lib.split[Cardinality(rows)])

----------------------------------------------------------------------------
(* The test rows are held out *)

\* the run is between the Predictions cell and the refit: y_predict and
\* the split it was made from are both bound
FirstSplitLive ==
    PcRank(pc) > PcRank("predict") /\ PcRank(pc) <= PcRank("rebuild")

\* C13: after every split the training rows and the test rows are disjoint
\* and together the rows of X, with X and Y cut at the same rows;
\* regression_model is the least-squares answer for the training rows only;
\* y_predict has one value per test row, the prediction for that row in the
\* order of y_test, and the metrics are computed from exactly these vectors.
C13_MetricsHeldOut ==
    /\ IsDef(env.X_train) =>
          /\ env.X_train.rows \cap env.X_test.rows = {}
          /\ env.X_train.rows \cup env.X_test.rows = env.X.rows
          /\ env.X_test.rows # {}
          /\ env.y_train.rows = env.X_train.rows
          /\ env.y_test.rows = env.X_test.rows
          /\ env.Y.rows = env.X.rows
          /\ LET key == <<env.X_train.cols, env.X_train.rows>>
             IN  /\ key \in DOMAIN lib.lstsq
                 /\ key[2] \cap env.X_test.rows = {}
                 /\ env.regression_model =
                       LinearRegression_fit(env.X_train, env.y_train,
                                            lib.lstsq[key])
    /\ FirstSplitLive =>
          /\ Len(env.y_predict.v) = Cardinality(env.y_test.rows)
          /\ \A i \in 1 .. Len(env.y_predict.v) :
                env.y_predict.v[i] =
                    predict_row(env.regression_model, Columns(env.X_test),
                                RowSeq(env.y_test.rows)[i])
    /\ IsDef(env.model_mse) =>
          /\ Len(Values(env.y_test)) = Len(env.y_predict.v)
          /\ env.model_mse.den = Cardinality(env.X_test.rows)
          /\ env.model_mse.num =
                SumSq(Values(env.y_test), env.y_predict.v, Len(env.y_predict.v))
    /\ IsDef(env.model_r2) =>
          env.model_r2 = r2_score(Values(env.y_test), env.y_predict.v)

\* the metrics of two held-out rows, with an error on at least one of them
C13_Witness ==
    /\ pc = "confint"
    /\ Cardinality(env.X_test.rows) = 2
    /\ Cardinality(env.X_train.rows) > 2
    /\ env.model_mse.num > 0
    /\ env.model_r2.kind = "r2"

----------------------------------------------------------------------------
(* Features of a model and columns of the rows it predicts *)

\* the features of the first fit and of the refit, by name
FullFeatures ==
    { "unemployment", "pop_growth", "broad_money_growth", "final_consum_gdp",
      "gov_final_consum_growth", "gross_cap_form_growth", "hh_consum_growth" }

TrimmedFeatureNames ==
    { "pop_growth", "final_consum_gdp", "gov_final_consum_growth",
      "gross_cap_form_growth", "hh_consum_growth" }

\* C14: whenever a predict call is about to run, X_test has the columns of
\* the X_train the model was fitted on and the model has one coefficient per
\* column: the full feature set at the Predictions cell, the trimmed one at
\* the prediction of the reloaded model, which is the refit.  No predict
\* call fails on its columns.  In every fit X has no gdp_growth column, Y
\* has only that column, and X and Y have the same rows.
C14_PredictColumnsMatchFit ==
    /\ [](pc = "predict" =>
            /\ env.X_test.cols = env.X_train.cols
            /\ env.X_test.cols = FullFeatures
            /\ Len(env.regression_model.coef_) = Cardinality(env.X_test.cols))
    /\ [](pc = "save_predict" =>
            /\ env.X_test.cols = env.X_train.cols
            /\ env.X_test.cols = TrimmedFeatureNames
            /\ env.regression_model_2 = env.regression_model
            /\ env.regression_model_2 =
                  LinearRegression_fit(
                      env.X_train, env.y_train,
                      lib.lstsq[<<env.X_test.cols, env.X_train.rows>>])
            /\ Len(env.regression_model_2.coef_) = Cardinality(env.X_test.cols))
    /\ [](IsDef(env.X) =>
            /\ "gdp_growth" \notin env.X.cols
            /\ env.Y.cols = {"gdp_growth"}
            /\ env.X.rows = env.Y.rows
            /\ IsDef(env.X_train) =>
                  /\ env.X_train.cols = env.X.cols
                  /\ env.y_train.cols = env.Y.cols
                  /\ env.X_train.rows = env.y_train.rows)
    /\ [][/\ pc = "predict" => pc' = "ols" /\ env'.y_predict.kind = "array"
          /\ pc = "save_predict" =>
                \/ pc' = "done" /\ out'.predicted.kind = "array"
                \/ pc' = "aborted" /\ PredictYear \notin env.X_test.rows]_vars

\* the reloaded refit has predicted the 2002 row of the refit's X_test,
\* while y_predict still holds the first model's predictions
C14_Witness ==
    /\ pc = "done"
    /\ out.predicted.kind = "array"
    /\ env.X_test.cols = TrimmedFeatureNames
    /\ Len(env.regression_model_2.coef_) = 5
    /\ env.y_predict.kind = "array"

----------------------------------------------------------------------------
(* What is saved and what was reported *)

\* the first fits, recomputed from the worksheet and the libraries' answers:
\* the full features of the rows of X, the first regression and summary fit
FirstX == Frame(env.X.rows, FullFeatures, {})

FirstModel ==
    LinearRegression_fit(take(FirstX, env.X_train.rows), env.y_train,
                         lib.lstsq[<<FullFeatures, env.X_train.rows>>])

FirstEst == OLS_fit(env.Y, add_constant(FirstX))

\* the reported numbers and decisions
Reported ==
    <<env.y_predict, env.model_mse, env.model_mae, env.model_rmse,
      env.model_r2, out.white, out.bp, out.lb, env.mean_residuals>>

\* C15: the refit and the persistence cells leave y_predict, the four
\* metrics and the diagnostic reports as they are.  When the run ends the
\* file holds the refit on the trimmed features, while y_predict and the
\* metrics are those of the first model on the full features and the
\* diagnostic reports those of the first summary fit.
C15_SavedRefitReportedFirstFit ==
    /\ [][PcRank(pc) >= PcRank("rebuild") => Reported' = Reported]_vars
    /\ [](pc = "done" =>
            /\ file.bytes = pickle_dumps(env.regression_model)
            /\ env.regression_model =
                  LinearRegression_fit(
                      env.X_train, env.y_train,
                      lib.lstsq[<<TrimmedFeatureNames, env.X_train.rows>>])
            /\ env.X_train.cols = TrimmedFeatureNames
            /\ env.y_predict = predict(FirstModel, take(FirstX, env.X_test.rows))
            /\ env.model_mse =
                  mean_squared_error(Values(env.y_test), env.y_predict.v)
            /\ env.model_mae =
                  mean_absolute_error(Values(env.y_test), env.y_predict.v)
            /\ env.model_rmse = sqrt(env.model_mse)
            /\ env.model_r2 = r2_score(Values(env.y_test), env.y_predict.v)
            /\ out.white = white_report(lib.white[FirstEst])
            /\ out.bp = bp_report(lib.bp[FirstEst])
            /\ out.lb = ljungbox_report(lib.ljungbox[<<FirstEst, env.lag.v>>])
            /\ env.mean_residuals.est = FirstEst
            /\ env.est # FirstEst)

\* the run has ended with the refit saved and a y_predict that the saved
\* model would not have produced
C15_Witness ==
    /\ pc = "done"
    /\ Len(env.regression_model.coef_) = 5
    /\ pickle_loads(file.bytes) = env.regression_model
    /\ env.y_predict # predict(env.regression_model, env.X_test)
    /\ env.model_mse.kind = "float"

====
